---- MODULE Spec2Model ----
(***************************************************************************)
(* A model of x_twitter_mcp/server.py: the rate limiter (check_rate_limit  *)
(* over rate_limit_counters), the lazily built client pair                 *)
(* (initialize_twitter_clients) and the tool handlers that compose them.   *)
(*                                                                         *)
(* Every tool handler is an `async def` whose body holds no `await`: the   *)
(* event loop runs one handler from its first line to its return or raise  *)
(* before it starts another.  A task is a handler invocation; pc[t] is the *)
(* line it stands at.  The clock, the process environment and the answers  *)
(* of the platform API are the environment.                                *)
(*                                                                         *)
(* The limits and windows of RATE_LIMITS are scaled down (300/1000/400     *)
(* admissions and 15 min/24 h become a few admissions and a few ticks);    *)
(* the 15 min window stays shorter than the 24 h window.                   *)
(*                                                                         *)
(* Five specifications share the actions: SpecLimiter and SpecClients call *)
(* check_rate_limit and initialize_twitter_clients on their own, Spec runs *)
(* all handlers with default arguments, SpecArgs runs the handlers that    *)
(* compute with their arguments (count, text, tags, media paths), and      *)
(* SpecConstruct calls initialize_twitter_clients with constructors that   *)
(* may raise.                                                              *)
(***************************************************************************)
EXTENDS Integers, Sequences, FiniteSets, TLC

\* ---------------------------------------------------------------- bounds
NTasks == 2
MaxTime == 2
LimitTweet == 2
LimitDm == 2
LimitFollow == 1
LimitLike == 1

Tasks == 1..NTasks

\* ------------------------------------------------- RATE_LIMITS (67-72)
Window15m == 1
Window24h == 2

Categories == {"tweet_actions", "dm_actions", "follow_actions", "like_actions"}

\* An action type with no entry in RATE_LIMITS.
Unlisted == "other_actions"

ActionTypes == Categories \cup {Unlisted}

RATE_LIMITS ==
  [a \in Categories |->
     CASE a = "tweet_actions"  -> [limit |-> LimitTweet,  window |-> Window15m]
       [] a = "dm_actions"     -> [limit |-> LimitDm,     window |-> Window15m]
       [] a = "follow_actions" -> [limit |-> LimitFollow, window |-> Window24h]
       [] a = "like_actions"   -> [limit |-> LimitLike,   window |-> Window24h]]

\* RATE_LIMITS.get(action_type) is None
EveryTypeConfigured(a) == FALSE

NoConfig(a) == a \notin DOMAIN RATE_LIMITS

\* ------------------------------------------------------------ the state
VARIABLES
  now,                  \* datetime.now()
  rate_limit_counters,  \* the defaultdict: action type -> counter
  pc,                   \* where each task stands
  task,                 \* each task's locals
  admitted,             \* per action type: True returns since its last reset
  env,                  \* os.environ: the credentials that are set and not empty
  twitter_client,       \* _twitter_client: 0 is None, else the object built
  twitter_v1_api,       \* _twitter_v1_api: 0 is None, else the object built
  built,                \* how often the credentials passed 42-44, and how many
                        \* Client and API objects were ever constructed
  firstPair,            \* the pair the first successful acquisition returned
  began                 \* whether initialize_twitter_clients was ever entered

limiterVars == <<rate_limit_counters, admitted>>
clientVars == <<env, twitter_client, twitter_v1_api, built, firstPair, began>>
vars == <<now, pc, task, limiterVars, clientVars>>

\* A key the defaultdict does not hold yet.
NoCounter == [held |-> FALSE, count |-> 0, reset_time |-> 0]

\* defaultdict(lambda: {"count": 0, "reset_time": datetime.now()})
NewCounter(clock) == [held |-> TRUE, count |-> 0, reset_time |-> clock]

\* What a call did, in order: the functions and constructors it entered and
\* the platform calls it made.
Ev(op, arg, ok) == [op |-> op, arg |-> arg, ok |-> ok]

NoPair == <<0, 0>>

\* The defaultdict with no key yet.
NoCounters == [a \in ActionTypes |-> NoCounter]

\* ------------------------------------------------ the handlers' arguments
\* Optional[int]: None, or an int.
NoneCount == [some |-> FALSE, v |-> 0]

Some(n) == [some |-> TRUE, v |-> n]

\* 128 and its like: count: Optional[int] = 100
DefaultCount == 100

\* Optional[List[str]]: None, or a list.
NoTags == [given |-> FALSE, list |-> <<>>]

Tags(l) == [given |-> TRUE, list |-> l]

\* A text is the sequence of its pieces.
DefaultText == <<"hello">>

IdleTask ==
  [h |-> "", a |-> "", lnow |-> 0, elapsed |-> FALSE, seen |-> 0, ok |-> FALSE,
   raced |-> "", after |-> FALSE, first |-> FALSE,
   pair |-> NoPair, n |-> 0, i |-> 0, resp |-> "",
   result |-> "", detail |-> "", trace |-> <<>>,
   before |-> NoCounters,
   count |-> NoneCount, text |-> <<>>, tags |-> NoTags,
   max_results |-> NoneCount, tweet_text |-> <<>>, media_ids |-> <<>>,
   out |-> <<>>]

\* 35-41
RequiredOrder ==
  <<"TWITTER_API_KEY", "TWITTER_API_SECRET", "TWITTER_ACCESS_TOKEN",
    "TWITTER_ACCESS_TOKEN_SECRET", "TWITTER_BEARER_TOKEN">>

Required == {RequiredOrder[i] : i \in DOMAIN RequiredOrder}

Init ==
  /\ now = 0
  /\ rate_limit_counters = NoCounters
  /\ pc = [t \in Tasks |-> "idle"]
  /\ task = [t \in Tasks |-> IdleTask]
  /\ admitted = [a \in ActionTypes |-> 0]
  /\ env = Required
  /\ twitter_client = 0
  /\ twitter_v1_api = 0
  /\ built = [reads |-> 0, client |-> 0, api |-> 0]
  /\ firstPair = NoPair
  /\ began = FALSE

\* ------------------------------------------------------- the event loop
\* The loop starts a coroutine only when no other one is between its first
\* line and its end: no handler body yields.
PreemptiveRun(t) == TRUE

CanRun(t) == \A u \in Tasks \ {t}: pc[u] \in {"idle", "ready"}

\* The clock moves on its own, also while a handler runs.
Tick ==
  /\ now < MaxTime
  /\ now' = now + 1
  /\ UNCHANGED <<pc, task, limiterVars, clientVars>>

\* A request arrives and its coroutine is scheduled, in the lowest free task.
\* With w, the history of what the request waits for is kept (task[t].raced).
Submit(t, w) ==
  /\ pc[t] = "idle"
  /\ \A u \in Tasks: u < t => pc[u] # "idle"
  /\ pc' = [pc EXCEPT ![t] = "ready"]
  /\ task' = [task EXCEPT ![t].raced = IF w THEN "nothing" ELSE ""]
  /\ UNCHANGED <<now, limiterVars, clientVars>>

\* History: a pending request whose history is kept is marked with what ran
\* while it waited: another call taking the last unit of an action type, or
\* building the clients.
NoteRace(tk, what) ==
  [u \in Tasks |->
     IF pc[u] = "ready" /\ tk[u].raced # ""
       THEN [tk[u] EXCEPT !.raced = what] ELSE tk[u]]

\* ---------------------------------------------- check_rate_limit (77-90)
\* 84: now >= counter["reset_time"]
IsStaleStrict(lnow, c) == lnow > c.reset_time

IsStale(lnow, c) == lnow >= c.reset_time

\* 85-86
ResetKeepsCount(c, lnow, cfg) == [c EXCEPT !.reset_time = lnow + cfg.window]

WindowFromStart(c, lnow, cfg) == [c EXCEPT !.count = 0, !.reset_time = cfg.window]

ResetCounter(c, lnow, cfg) ==
  [c EXCEPT !.count = 0, !.reset_time = lnow + cfg.window]

\* 87: counter["count"] >= config["limit"]
OverLimitStrict(c, cfg) == c.count > cfg.limit

OverLimit(c, cfg) == c.count >= cfg.limit

\* A direct call of check_rate_limit(a).  One run of these calls exercises one
\* configured category, and the unlisted action type beside it at any time;
\* the server below mixes the categories its handlers use.
CallCheckRateLimit(t, a) ==
  /\ pc[t] = "ready"
  /\ CanRun(t)
  /\ a \in Categories => \A b \in Categories \ {a}: ~rate_limit_counters[b].held
  /\ pc' = [pc EXCEPT ![t] = "rl_enter"]
  /\ task' = [task EXCEPT ![t].h = "check_rate_limit", ![t].a = a]
  /\ UNCHANGED <<now, limiterVars, clientVars>>

\* 79-83: no config returns True; else the lookup creates the counter on its
\* first reference, and the clock is read.  History: task[t].before is the
\* defaultdict as the call found it, kept until the caller has the answer.
RlEnter(t) ==
  /\ pc[t] = "rl_enter"
  /\ LET a == task[t].a
         c == IF rate_limit_counters[a].held
                THEN rate_limit_counters[a] ELSE NewCounter(now)
     IN IF NoConfig(a)
          THEN /\ pc' = [pc EXCEPT ![t] = "rl_ret"]
               /\ task' = [task EXCEPT ![t].ok = TRUE,
                                       ![t].before = rate_limit_counters,
                                       ![t].trace = Append(@, Ev("check_rate_limit", 0, TRUE))]
               /\ UNCHANGED rate_limit_counters
          ELSE /\ pc' = [pc EXCEPT ![t] = "rl_stale"]
               /\ rate_limit_counters' = [rate_limit_counters EXCEPT ![a] = c]
               /\ task' = [task EXCEPT ![t].lnow = now,
                                       ![t].before = rate_limit_counters,
                                       ![t].elapsed = (now >= c.reset_time),
                                       ![t].trace = Append(@, Ev("check_rate_limit", 0, TRUE))]
  /\ UNCHANGED <<now, admitted, clientVars>>

\* 84-86
RlReset(t) ==
  /\ pc[t] = "rl_stale"
  /\ LET a == task[t].a
         c == rate_limit_counters[a]
     IN IF IsStale(task[t].lnow, c)
          THEN /\ rate_limit_counters' =
                    [rate_limit_counters EXCEPT
                       ![a] = ResetCounter(c, task[t].lnow, RATE_LIMITS[a])]
               /\ admitted' = [admitted EXCEPT ![a] = 0]
          ELSE UNCHANGED <<rate_limit_counters, admitted>>
  /\ pc' = [pc EXCEPT ![t] = "rl_cmp"]
  /\ UNCHANGED <<now, task, clientVars>>

\* 87-88
RlCompare(t) ==
  /\ pc[t] = "rl_cmp"
  /\ LET a == task[t].a
     IN IF OverLimit(rate_limit_counters[a], RATE_LIMITS[a])
          THEN /\ pc' = [pc EXCEPT ![t] = "rl_ret"]
               /\ task' = [task EXCEPT ![t].ok = FALSE, ![t].seen = admitted[a]]
          ELSE /\ pc' = [pc EXCEPT ![t] = "rl_inc"]
               /\ task' = [task EXCEPT ![t].seen = admitted[a]]
  /\ UNCHANGED <<now, limiterVars, clientVars>>

\* 89: counter["count"] += 1
ConsumesTwice(c) == [c EXCEPT !.count = @ + 2]

Consume(c) == [c EXCEPT !.count = @ + 1]

\* 89-90
RlIncrement(t) ==
  /\ pc[t] = "rl_inc"
  /\ LET a == task[t].a
     IN /\ rate_limit_counters' =
             [rate_limit_counters EXCEPT ![a] = Consume(@)]
        /\ admitted' = [admitted EXCEPT ![a] = @ + 1]
        /\ task' = IF rate_limit_counters[a].count + 1 = RATE_LIMITS[a].limit
                     THEN NoteRace([task EXCEPT ![t].ok = TRUE], a)
                     ELSE [task EXCEPT ![t].ok = TRUE]
  /\ pc' = [pc EXCEPT ![t] = "rl_ret"]
  /\ UNCHANGED <<now, clientVars>>

\* The direct caller takes the returned bool.
RlReturn(t) ==
  /\ pc[t] = "rl_ret"
  /\ task[t].h = "check_rate_limit"
  /\ pc' = [pc EXCEPT ![t] = "done"]
  /\ task' = [task EXCEPT ![t].result = IF task[t].ok THEN "True" ELSE "False",
                          ![t].raced = "", ![t].before = NoCounters]
  /\ UNCHANGED <<now, limiterVars, clientVars>>

\* The coroutine has ended; its task is gone.
Finish(t) ==
  /\ pc[t] = "done"
  /\ pc' = [pc EXCEPT ![t] = "idle"]
  /\ task' = [task EXCEPT ![t] = IdleTask]
  /\ UNCHANGED <<now, limiterVars, clientVars>>

RlStep(t) ==
  \/ RlEnter(t)
  \/ RlReset(t)
  \/ RlCompare(t)
  \/ RlIncrement(t)

\* ------------------------------------ initialize_twitter_clients (27-64)
MaxBuilds == 2

\* The process environment changes only between handler runs: nothing in a
\* handler writes it.
Quiet == \A t \in Tasks: pc[t] \in {"idle", "ready"}

UnsetEnv(v) ==
  /\ Quiet
  /\ v \in env
  /\ env' = env \ {v}
  /\ UNCHANGED <<now, pc, task, limiterVars, twitter_client, twitter_v1_api,
                 built, firstPair, began>>

SetEnv(v) ==
  /\ Quiet
  /\ v \in Required \ env
  /\ env' = env \cup {v}
  /\ UNCHANGED <<now, pc, task, limiterVars, twitter_client, twitter_v1_api,
                 built, firstPair, began>>

\* 31: _twitter_client is not None and _twitter_v1_api is not None
NeverCached(c, v) == FALSE

CachedPair(c, v) == c # 0 /\ v # 0

\* 42-44: the first variable of the list that os.getenv finds unset or empty;
\* "" when all are set.
RECURSIVE MissingFrom(_, _)
MissingFrom(i, e) ==
  IF i > Len(RequiredOrder) THEN ""
  ELSE IF RequiredOrder[i] \notin e THEN RequiredOrder[i]
  ELSE MissingFrom(i + 1, e)

SkipsBearerToken(e) == MissingFrom(1, e \cup {"TWITTER_BEARER_TOKEN"})

FirstMissing(e) == MissingFrom(1, e)

\* A direct call of initialize_twitter_clients().
CallInitialize(t) ==
  /\ pc[t] = "ready"
  /\ CanRun(t)
  /\ pc' = [pc EXCEPT ![t] = "init_check"]
  /\ task' = [task EXCEPT ![t].h = "initialize_twitter_clients"]
  /\ UNCHANGED <<now, limiterVars, clientVars>>

\* 31-32
InitCheck(t) ==
  /\ pc[t] = "init_check"
  /\ began' = TRUE
  /\ LET tk == [task[t] EXCEPT
                  !.after = (firstPair # NoPair),
                  !.first = ~began,
                  !.trace = Append(@, Ev("initialize_twitter_clients", 0, TRUE))]
     IN IF CachedPair(twitter_client, twitter_v1_api)
          THEN /\ pc' = [pc EXCEPT ![t] = "init_ret"]
               /\ task' = [task EXCEPT ![t] =
                             [tk EXCEPT !.pair = <<twitter_client, twitter_v1_api>>]]
          ELSE /\ pc' = [pc EXCEPT ![t] = "init_env"]
               /\ task' = [task EXCEPT ![t] = tk]
  /\ UNCHANGED <<now, limiterVars, env, twitter_client, twitter_v1_api, built,
                 firstPair>>

\* 35-44
InitEnv(t) ==
  /\ pc[t] = "init_env"
  /\ LET m == FirstMissing(env)
     IN IF m # ""
          THEN /\ pc' = [pc EXCEPT ![t] = "done"]
               /\ task' = [task EXCEPT ![t].result = "ConfigurationError",
                                       ![t].detail = m]
          ELSE /\ pc' = [pc EXCEPT ![t] = "init_v2"]
               /\ task' = [task EXCEPT ![t].trace = Append(@, Ev("getenv", 0, TRUE))]
  /\ built' = IF FirstMissing(env) = "" /\ built.reads < MaxBuilds
                THEN [built EXCEPT !.reads = @ + 1] ELSE built
  /\ UNCHANGED <<now, limiterVars, env, twitter_client, twitter_v1_api, firstPair,
                 began>>

\* 47-53
InitClient(t) ==
  /\ pc[t] = "init_v2"
  /\ built.client < MaxBuilds
  /\ twitter_client' = built.client + 1
  /\ built' = [built EXCEPT !.client = @ + 1]
  /\ task' = [task EXCEPT ![t].trace = Append(@, Ev("Client", built.client + 1, TRUE))]
  /\ pc' = [pc EXCEPT ![t] = "init_v1"]
  /\ UNCHANGED <<now, limiterVars, env, twitter_v1_api, firstPair, began>>

\* 56-64
InitV1(t) ==
  /\ pc[t] = "init_v1"
  /\ built.api < MaxBuilds
  /\ twitter_v1_api' = built.api + 1
  /\ built' = [built EXCEPT !.api = @ + 1]
  /\ task' = NoteRace([task EXCEPT
                          ![t].trace = Append(@, Ev("API", built.api + 1, TRUE)),
                          ![t].pair = <<twitter_client, built.api + 1>>], "build")
  /\ pc' = [pc EXCEPT ![t] = "init_ret"]
  /\ UNCHANGED <<now, limiterVars, env, twitter_client, firstPair, began>>

\* The direct caller takes the returned pair.
InitReturn(t) ==
  /\ pc[t] = "init_ret"
  /\ task[t].h = "initialize_twitter_clients"
  /\ pc' = [pc EXCEPT ![t] = "done"]
  /\ task' = [task EXCEPT ![t].result = "pair", ![t].raced = ""]
  /\ firstPair' = IF firstPair = NoPair THEN task[t].pair ELSE firstPair
  /\ UNCHANGED <<now, limiterVars, env, twitter_client, twitter_v1_api, built,
                 began>>

InitStep(t) ==
  \/ InitCheck(t)
  \/ InitEnv(t)
  \/ InitClient(t)
  \/ InitV1(t)

\* -------------------------- initialize_twitter_clients called on its own
NextClients ==
  \/ Tick
  \/ \E v \in Required: UnsetEnv(v)
  \/ \E v \in Required: SetEnv(v)
  \/ \E t \in Tasks: Submit(t, TRUE)
  \/ \E t \in Tasks: CallInitialize(t)
  \/ \E t \in Tasks: InitStep(t)
  \/ \E t \in Tasks: InitReturn(t)
  \/ \E t \in Tasks: Finish(t)

SpecClients == Init /\ [][NextClients]_vars

\* ------------------------------------------- constructors that may raise
\* 47-53: tweepy.Client(...) raises; the assignment of line 47 does not happen.
InitClientRaises(t) ==
  /\ pc[t] = "init_v2"
  /\ task' = [task EXCEPT ![t].trace = Append(@, Ev("Client", 0, FALSE)),
                          ![t].result = "ConstructionError",
                          ![t].raced = ""]
  /\ pc' = [pc EXCEPT ![t] = "done"]
  /\ UNCHANGED <<now, limiterVars, clientVars>>

\* 56-62: tweepy.OAuth1UserHandler(...) or tweepy.API(auth) raises; line 47
\* has assigned _twitter_client already and nothing takes it back.
InitV1Raises(t) ==
  /\ pc[t] = "init_v1"
  /\ task' = [task EXCEPT ![t].trace = Append(@, Ev("API", 0, FALSE)),
                          ![t].result = "ConstructionError",
                          ![t].raced = ""]
  /\ pc' = [pc EXCEPT ![t] = "done"]
  /\ UNCHANGED <<now, limiterVars, clientVars>>

\* initialize_twitter_clients called on its own, with all credentials set and
\* constructors that succeed or raise.
NextConstruct ==
  \/ Tick
  \/ \E t \in Tasks: Submit(t, TRUE)
  \/ \E t \in Tasks: CallInitialize(t)
  \/ \E t \in Tasks: InitStep(t)
  \/ \E t \in Tasks: InitClientRaises(t)
  \/ \E t \in Tasks: InitV1Raises(t)
  \/ \E t \in Tasks: InitReturn(t)
  \/ \E t \in Tasks: Finish(t)

SpecConstruct == Init /\ [][NextConstruct]_vars

\* ----------------------------------- check_rate_limit called on its own
NextLimiter ==
  \/ Tick
  \/ \E t \in Tasks: Submit(t, TRUE)
  \/ \E t \in Tasks, a \in ActionTypes: CallCheckRateLimit(t, a)
  \/ \E t \in Tasks: RlStep(t)
  \/ \E t \in Tasks: RlReturn(t)
  \/ \E t \in Tasks: Finish(t)

SpecLimiter == Init /\ [][NextLimiter]_vars

\* ------------------------------------------------ the tool handlers (94-438)
MaxMedia == 1
MaxBookmarks == 3

Lookups ==
  {"get_user_profile", "get_user_by_screen_name", "get_user_by_id",
   "get_tweet_details"}

FollowLists ==
  {"get_user_followers", "get_user_following", "get_user_followers_you_know",
   "get_user_subscriptions"}

TweetLists ==
  {"get_timeline", "get_latest_timeline", "search_twitter",
   "get_highlights_tweets", "get_user_mentions"}

Creators == {"post_tweet", "create_poll_tweet"}

Flags ==
  {"delete_tweet", "favorite_tweet", "unfavorite_tweet", "bookmark_tweet",
   "delete_bookmark"}

Handlers ==
  Lookups \cup FollowLists \cup TweetLists \cup Creators \cup Flags
    \cup {"vote_on_poll", "delete_all_bookmarks", "get_trends"}

\* The action type the handler passes to check_rate_limit; "" when it calls
\* check_rate_limit nowhere.
EveryHandlerCounted(h) ==
  CASE h \in FollowLists -> "follow_actions"
    [] h \in {"favorite_tweet", "unfavorite_tweet"} -> "like_actions"
    [] OTHER -> "tweet_actions"

Category(h) ==
  CASE h \in FollowLists -> "follow_actions"
    [] h \in {"favorite_tweet", "unfavorite_tweet"} -> "like_actions"
    [] h \in {"post_tweet", "delete_tweet", "create_poll_tweet", "vote_on_poll",
              "bookmark_tweet", "delete_bookmark", "delete_all_bookmarks"}
         -> "tweet_actions"
    [] OTHER -> ""

\* 266-277: vote_on_poll calls initialize_twitter_clients nowhere.
EveryHandlerAcquires(h) == TRUE

Acquires(h) == h # "vote_on_poll"

\* The first platform call the handler makes through its handle.
Endpoint(h) ==
  CASE h \in {"get_user_profile", "get_user_by_screen_name", "get_user_by_id"}
         -> "get_user"
    [] h \in {"get_user_followers", "get_user_followers_you_know"}
         -> "get_users_followers"
    [] h \in {"get_user_following", "get_user_subscriptions"}
         -> "get_users_following"
    [] h \in Creators -> "create_tweet"
    [] h = "delete_tweet" -> "delete_tweet"
    [] h = "get_tweet_details" -> "get_tweet"
    [] h = "favorite_tweet" -> "like"
    [] h = "unfavorite_tweet" -> "unlike"
    [] h = "bookmark_tweet" -> "bookmark"
    [] h = "delete_bookmark" -> "remove_bookmark"
    [] h = "delete_all_bookmarks" -> "get_bookmarks"
    [] h \in {"get_timeline", "get_latest_timeline"} -> "get_home_timeline"
    [] h = "search_twitter" -> "search_recent_tweets"
    [] h = "get_trends" -> "get_place_trends"
    [] h = "get_highlights_tweets" -> "get_users_tweets"
    [] h = "get_user_mentions" -> "get_users_mentions"
    [] OTHER -> ""

\* What the platform answers: a payload, a response without data, or an error
\* the client library raises.
Responses == {"data", "nodata", "error"}

\* What the handler makes of a response that is not an error.
\*   103, 114, 125, 242:  x.data.data if x.data else None
\*   140, 155, 171, 187, 356, 367, 395, 425, 438:  [.. for .. in (x.data or [])]
\*   216-218, 262-264:  if not tweet.data: return None
\*   231, 290, 303, 317, 330:  result.data["..."], on None a TypeError
\*   407-411: the trends of the first place, possibly none
Outcome(h, r) ==
  CASE r = "data" -> "data"
    [] h \in Lookups -> "None"
    [] h \in FollowLists \cup TweetLists -> "[]"
    [] h \in Creators -> "None"
    [] h \in Flags -> "TypeError"
    [] h = "get_trends" -> "[]"
    [] OTHER -> "TypeError"

\* 136-137 and its like in every handler with a category:
\* if not check_rate_limit(..): raise Exception(".. rate limit exceeded")
IgnoresAdmission(ok) == FALSE

Rejected(ok) == ~ok

\* The handlers that take a count and pass max_results to the platform.
Paginated == FollowLists \cup TweetLists

\* 382-391: search_twitter's effective_count
SearchDefault == 100
SearchMin == 10
SearchMax == 100

PassesCountThrough(c) == c

EffectiveCount(c) ==
  IF ~c.some THEN Some(SearchDefault)
  ELSE IF c.v < SearchMin THEN Some(SearchMin)
  ELSE IF c.v > SearchMax THEN Some(SearchMax)
  ELSE c

\* The max_results the handler passes with its platform call: search_twitter
\* passes effective_count (394), every other paginated handler its count
\* argument (139, 154, 170, 186, 355, 366, 424, 437); the other handlers
\* pass none.
MaxResults(h, c) ==
  IF h = "search_twitter" THEN EffectiveCount(c)
  ELSE IF h \in Paginated THEN c
  ELSE NoneCount

\* 206-207: if tags: text += " " + " ".join(f"#{tag}" for tag in tags)
RECURSIVE JoinTags(_)
JoinTags(l) ==
  IF l = <<>> THEN <<>>
  ELSE IF Len(l) = 1 THEN <<"#", l[1]>>
  ELSE <<"#", l[1], " ">> \o JoinTags(Tail(l))

RECURSIVE JoinTagsReversed(_)
JoinTagsReversed(l) ==
  IF l = <<>> THEN <<>>
  ELSE IF Len(l) = 1 THEN <<"#", l[1]>>
  ELSE JoinTagsReversed(Tail(l)) \o <<" ", "#", l[1]>>

TagsReversed(x, g) ==
  IF g.given /\ g.list # <<>> THEN x \o <<" ">> \o JoinTagsReversed(g.list) ELSE x

ComposeText(x, g) ==
  IF g.given /\ g.list # <<>> THEN x \o <<" ">> \o JoinTags(g.list) ELSE x

\* 171: the slice [:count] of a list
WholeList(l, c) == l

Prefix(l, c) ==
  IF ~c.some THEN l
  ELSE IF c.v >= 0 THEN SubSeq(l, 1, IF c.v < Len(l) THEN c.v ELSE Len(l))
  ELSE SubSeq(l, 1, IF Len(l) + c.v > 0 THEN Len(l) + c.v ELSE 0)

\* The list the handler returns from the entries l of the response.
Returned(h, l, c) ==
  IF h = "get_user_followers_you_know" THEN Prefix(l, c) ELSE l

\* The loop runs handler h with its arguments: m media paths, text x and tags
\* g (post_tweet), count c (the paginated handlers).
Invoke(t, h, m, c, x, g) ==
  /\ pc[t] = "ready"
  /\ CanRun(t)
  /\ h # "post_tweet" => (m = 0 /\ x = DefaultText /\ g = NoTags)
  /\ h \notin Paginated => c = Some(DefaultCount)
  /\ pc' = [pc EXCEPT ![t] = IF Category(h) # "" THEN "rl_enter" ELSE "init_check"]
  /\ task' = [task EXCEPT ![t].h = h, ![t].a = Category(h), ![t].n = m,
                          ![t].count = c, ![t].text = x, ![t].tags = g]
  /\ UNCHANGED <<now, limiterVars, clientVars>>

\* A call that leaves count, text and tags at their defaults.
Dispatch(t, h, m) == Invoke(t, h, m, Some(DefaultCount), DefaultText, NoTags)

\* The handler's test of the returned bool; vote_on_poll returns its canned
\* answer right after it (277).
HGate(t) ==
  /\ pc[t] = "rl_ret"
  /\ task[t].h \in Handlers
  /\ IF Rejected(task[t].ok)
       THEN /\ pc' = [pc EXCEPT ![t] = "done"]
            /\ task' = [task EXCEPT ![t].result = "RateLimitExceeded",
                                    ![t].raced = "", ![t].before = NoCounters]
       ELSE IF Acquires(task[t].h)
         THEN /\ pc' = [pc EXCEPT ![t] = "init_check"]
              /\ task' = [task EXCEPT ![t].raced = IF @ = "build" THEN @ ELSE "",
                                      ![t].before = NoCounters]
         ELSE /\ pc' = [pc EXCEPT ![t] = "done"]
              /\ task' = [task EXCEPT ![t].result = "voted", ![t].raced = "",
                                      ![t].before = NoCounters]
  /\ UNCHANGED <<now, limiterVars, clientVars>>

\* client, v1_api = initialize_twitter_clients(); in post_tweet the text to
\* send is put together next (203-207).
HAcquired(t) ==
  /\ pc[t] = "init_ret"
  /\ task[t].h \in Handlers
  /\ pc' = [pc EXCEPT ![t] =
              IF task[t].h = "post_tweet" /\ task[t].n > 0 THEN "upload" ELSE "api"]
  /\ firstPair' = IF firstPair = NoPair THEN task[t].pair ELSE firstPair
  /\ task' = [task EXCEPT
                ![t].raced = "",
                ![t].tweet_text = IF task[t].h = "post_tweet"
                                    THEN ComposeText(task[t].text, task[t].tags)
                                    ELSE @]
  /\ UNCHANGED <<now, limiterVars, env, twitter_client, twitter_v1_api,
                 built, began>>

\* 210-214: what follows one v1_api.media_upload of the loop
SkipsFailedUpload(ok, i, n) == IF i < n THEN "upload" ELSE "create"

AfterUpload(ok, i, n) ==
  IF ~ok THEN "raise" ELSE IF i < n THEN "upload" ELSE "create"

\* 210-212: one v1_api.media_upload per path, in list order; the identifier
\* it returns (here the path's position) is appended to media_ids.
Upload(t, ok) ==
  /\ pc[t] = "upload"
  /\ LET i == task[t].i + 1
         to == AfterUpload(ok, i, task[t].n)
     IN /\ task' = [task EXCEPT
                      ![t].i = i,
                      ![t].trace = Append(@, Ev("media_upload", i, ok)),
                      ![t].media_ids = IF ok THEN Append(@, i) ELSE @,
                      ![t].result = IF to = "raise" THEN "UpstreamAPIError" ELSE @]
        /\ pc' = [pc EXCEPT ![t] = CASE to = "raise" -> "done"
                                     [] to = "upload" -> "upload"
                                     [] OTHER -> "api"]
  /\ UNCHANGED <<now, limiterVars, clientVars>>

\* 340-342: what follows one client.remove_bookmark of the loop
KeepsRemoving(ok, i, n) == IF i < n THEN "remove" ELSE "return"

AfterRemove(ok, i, n) ==
  IF ~ok THEN "raise" ELSE IF i < n THEN "remove" ELSE "return"

\* The handlers whose answer depends on how many entries the platform lists.
Lists == {"delete_all_bookmarks", "get_user_followers_you_know"}

\* The handler's platform call and what it returns or raises.  For
\* delete_all_bookmarks this is get_bookmarks (339), answering len bookmarks;
\* for get_user_followers_you_know the platform lists len followers, 1..len.
ApiCall(t, r, len) ==
  /\ pc[t] = "api"
  /\ len > 1 => (task[t].h \in Lists /\ r = "data")
  /\ LET h == task[t].h
         tk == [task[t] EXCEPT !.trace = Append(@, Ev(Endpoint(h), 0, r # "error")),
                               !.resp = r,
                               !.max_results = MaxResults(h, task[t].count),
                               !.n = IF r = "data" /\ h = "get_user_followers_you_know"
                                       THEN len ELSE @,
                               !.out = IF r = "data" /\ h \in Paginated
                                         THEN Returned(h, [k \in 1..len |-> k],
                                                       task[t].count)
                                         ELSE <<>>]
     IN IF r = "error"
          THEN /\ pc' = [pc EXCEPT ![t] = "done"]
               /\ task' = [task EXCEPT ![t] = [tk EXCEPT !.result = "UpstreamAPIError"]]
          ELSE IF h = "delete_all_bookmarks" /\ r = "data"
            THEN /\ pc' = [pc EXCEPT ![t] = "remove"]
                 /\ task' = [task EXCEPT ![t] = [tk EXCEPT !.n = len, !.i = 0]]
            ELSE /\ pc' = [pc EXCEPT ![t] = "done"]
                 /\ task' = [task EXCEPT ![t] = [tk EXCEPT !.result = Outcome(h, r)]]
  /\ UNCHANGED <<now, limiterVars, clientVars>>

\* 340-342
RemoveBookmark(t, ok) ==
  /\ pc[t] = "remove"
  /\ LET i == task[t].i + 1
         to == AfterRemove(ok, i, task[t].n)
     IN /\ task' = [task EXCEPT
                      ![t].i = i,
                      ![t].trace = Append(@, Ev("remove_bookmark", i, ok)),
                      ![t].result = CASE to = "raise" -> "UpstreamAPIError"
                                      [] to = "return" -> "all bookmarks deleted"
                                      [] OTHER -> @]
        /\ pc' = [pc EXCEPT ![t] = IF to = "remove" THEN "remove" ELSE "done"]
  /\ UNCHANGED <<now, limiterVars, clientVars>>

\* ------------------------------------------------------------ the server
\* The server's environment either holds all five credentials or lacks one
\* (the one of the specification's example); SpecClients varies all five.
Toggled == {"TWITTER_ACCESS_TOKEN_SECRET"}

Next ==
  \/ Tick
  \/ \E v \in Toggled: UnsetEnv(v)
  \/ \E v \in Toggled: SetEnv(v)
  \/ \E t \in Tasks: Submit(t, FALSE)
  \/ \E t \in Tasks, h \in Handlers, m \in 0..MaxMedia: Dispatch(t, h, m)
  \/ \E t \in Tasks: RlStep(t)
  \/ \E t \in Tasks: HGate(t)
  \/ \E t \in Tasks: InitStep(t)
  \/ \E t \in Tasks: HAcquired(t)
  \/ \E t \in Tasks, ok \in BOOLEAN: Upload(t, ok)
  \/ \E t \in Tasks, r \in Responses, len \in 1..MaxBookmarks: ApiCall(t, r, len)
  \/ \E t \in Tasks, ok \in BOOLEAN: RemoveBookmark(t, ok)
  \/ \E t \in Tasks: Finish(t)

Spec == Init /\ [][Next]_vars

\* ------------------------------- the handlers that compute with arguments
MaxPaths == 2
MaxTags == 2
MaxFollowers == 3

\* A count is None or a number of entries.
CountInputs == {NoneCount} \cup {Some(v) : v \in {0, 2, 9, 10, 50, 100, 101}}

TextInputs == {DefaultText, <<"good", " ", "day">>}

RECURSIVE ListsUpTo(_)
ListsUpTo(n) ==
  IF n = 0 THEN {<<>>}
  ELSE LET shorter == ListsUpTo(n - 1)
       IN shorter \cup {Append(l, g) : l \in {k \in shorter : Len(k) = n - 1},
                                       g \in {"a", "b"}}

TagInputs == {NoTags} \cup {Tags(l) : l \in ListsUpTo(MaxTags)}

NextArgs ==
  \/ Tick
  \/ \E t \in Tasks: Submit(t, FALSE)
  \/ \E t \in Tasks, h \in Paginated, c \in CountInputs:
       Invoke(t, h, 0, c, DefaultText, NoTags)
  \/ \E t \in Tasks, m \in 0..MaxPaths, x \in TextInputs, g \in TagInputs:
       Invoke(t, "post_tweet", m, Some(DefaultCount), x, g)
  \/ \E t \in Tasks: RlStep(t)
  \/ \E t \in Tasks: HGate(t)
  \/ \E t \in Tasks: InitStep(t)
  \/ \E t \in Tasks: HAcquired(t)
  \/ \E t \in Tasks, ok \in BOOLEAN: Upload(t, ok)
  \/ \E t \in Tasks, r \in Responses, len \in 1..MaxFollowers: ApiCall(t, r, len)
  \/ \E t \in Tasks: Finish(t)

SpecArgs == Init /\ [][NextArgs]_vars

\* ============================================================ properties
TypeOK ==
  /\ now \in 0..MaxTime
  /\ env \subseteq Required
  /\ pc \in [Tasks -> {"idle", "ready", "rl_enter", "rl_stale", "rl_cmp", "rl_inc",
                       "rl_ret", "init_check", "init_env", "init_v2", "init_v1",
                       "init_ret", "upload", "api", "remove", "done"}]

\* The events of a call that name one of ops, in order.
Events(t, ops) == SelectSeq(task[t].trace, LAMBDA e: e.op \in ops)

\* C1: for every configured category, a check_rate_limit call that finds the
\* window still running and `limit` admissions already made in it returns
\* False; a call that finds the window elapsed (now >= reset_time) returns
\* True and leaves the counter at count = 1.
C1_SaturateThenReset ==
  \A t \in Tasks:
    (pc[t] = "rl_ret" /\ task[t].a \in Categories) =>
      LET a == task[t].a
      IN /\ (~task[t].elapsed /\ task[t].seen = RATE_LIMITS[a].limit) => ~task[t].ok
         /\ task[t].elapsed => (task[t].ok /\ rate_limit_counters[a].count = 1)

\* A caller that waited while the last unit of its category was taken calls
\* after the window has elapsed: it is admitted and the count is 1 again.
C1_Witness ==
  \E t \in Tasks:
    /\ pc[t] = "rl_ret"
    /\ task[t].a \in Categories
    /\ task[t].raced = task[t].a
    /\ task[t].elapsed
    /\ task[t].ok
    /\ rate_limit_counters[task[t].a].count = 1

\* C2: in every reachable state each configured category's counter has
\* 0 <= count <= limit.
C2_CountWithinLimit ==
  \A a \in Categories:
    /\ rate_limit_counters[a].count >= 0
    /\ rate_limit_counters[a].count <= RATE_LIMITS[a].limit

\* A counter stands at its limit after a rejected check, late in the run.
C2_Witness ==
  \E t \in Tasks:
    /\ pc[t] = "done"
    /\ task[t].result = "False"
    /\ rate_limit_counters[task[t].a].count = RATE_LIMITS[task[t].a].limit
    /\ now = MaxTime

\* A call stands between the staleness check and the return of one admission.
InAdmission(t) == pc[t] \in {"rl_stale", "rl_cmp", "rl_inc"}

\* C3: one admission's staleness check, reset, comparison and increment run
\* without another admission of the same category in between, an admission
\* returns True only if fewer than `limit` were made in the window, and so the
\* admissions of a window never exceed the limit.
C3_AdmissionAtomic ==
  /\ \A t, u \in Tasks:
       (t # u /\ InAdmission(t) /\ InAdmission(u)) => task[t].a # task[u].a
  /\ \A t \in Tasks:
       (pc[t] = "rl_ret" /\ task[t].a \in Categories /\ task[t].ok)
         => task[t].seen < RATE_LIMITS[task[t].a].limit
  /\ \A a \in Categories: admitted[a] <= RATE_LIMITS[a].limit

\* Two requests were pending at once; one took the last unit of the category
\* and the other, run next within the window, is rejected.
C3_Witness ==
  \E t \in Tasks:
    /\ pc[t] = "rl_ret"
    /\ task[t].a \in Categories
    /\ task[t].raced = task[t].a
    /\ ~task[t].elapsed
    /\ ~task[t].ok
    /\ admitted[task[t].a] = RATE_LIMITS[task[t].a].limit

\* C4: however many callers are pending for the first acquisition, the
\* credentials pass validation once, one Client and one API object are
\* constructed, and every caller holds the one pair that is cached.
C4_OneConstruction ==
  /\ built.reads <= 1
  /\ built.client <= 1
  /\ built.api <= 1
  /\ \A t \in Tasks:
       task[t].pair # NoPair =>
         /\ task[t].pair = <<twitter_client, twitter_v1_api>>
         /\ firstPair # NoPair => task[t].pair = firstPair
         /\ built = [reads |-> 1, client |-> 1, api |-> 1]

\* A caller that was pending while another one built the clients has received
\* the pair that caller received.
C4_Witness ==
  \E t \in Tasks:
    /\ pc[t] = "init_ret"
    /\ task[t].raced = "build"
    /\ env = Required
    /\ task[t].pair # NoPair
    /\ task[t].pair = firstPair

\* C5: an acquisition that finds no cached pair and a required credential
\* unset or empty raises the configuration error naming the first missing
\* variable in the order of the list, and constructs and caches nothing; only
\* with all five set does a call reach the constructors.
C5_MissingCredential ==
  \A t \in Tasks:
    /\ (pc[t] = "done" /\ task[t].result = "ConfigurationError") =>
         /\ \E i \in DOMAIN RequiredOrder:
              /\ task[t].detail = RequiredOrder[i]
              /\ RequiredOrder[i] \notin env
              /\ \A j \in 1..(i - 1): RequiredOrder[j] \in env
         /\ Events(t, {"getenv", "Client", "API"}) = <<>>
         /\ task[t].pair = NoPair
         /\ twitter_client = 0 \/ twitter_v1_api = 0
    /\ (pc[t] \in {"init_v2", "init_v1"} \/ Events(t, {"getenv", "Client", "API"}) # <<>>)
         => Required \subseteq env

\* Two credentials are missing and the error names the first of them.
C5_Witness ==
  \E t \in Tasks:
    /\ pc[t] = "done"
    /\ task[t].result = "ConfigurationError"
    /\ task[t].detail = "TWITTER_API_SECRET"
    /\ "TWITTER_BEARER_TOKEN" \notin env
    /\ twitter_client = 0

\* C6: a call of initialize_twitter_clients entered after one acquisition has
\* succeeded returns the pair of that acquisition; it reads no credential,
\* constructs nothing and raises no configuration error, whatever the
\* environment holds by then.
C6_CachedAfterSuccess ==
  \A t \in Tasks:
    task[t].after =>
      /\ pc[t] \notin {"init_env", "init_v2", "init_v1"}
      /\ task[t].result # "ConfigurationError"
      /\ Events(t, {"getenv", "Client", "API"}) = <<>>
      /\ task[t].pair = firstPair
      /\ built = [reads |-> 1, client |-> 1, api |-> 1]

\* All credentials were removed after the first success; the call still
\* returns the cached pair.
C6_Witness ==
  \E t \in Tasks:
    /\ pc[t] = "init_ret"
    /\ task[t].after
    /\ env = {}
    /\ task[t].pair = firstPair

\* C7, as stated: a configuration error is raised only by the first
\* acquisition call of the process.
C7_OnlyFirstCall ==
  \A t \in Tasks:
    (pc[t] = "done" /\ task[t].result = "ConfigurationError") => task[t].first

\* C7, amended: a configuration error is raised only by acquisition calls
\* entered before any acquisition has succeeded; no call entered after a
\* successful one raises it.
C7_OnlyBeforeSuccess ==
  \A t \in Tasks:
    (pc[t] = "done" /\ task[t].result = "ConfigurationError") => ~task[t].after

\* A later call, not the first one, raises the configuration error.
C7_Witness ==
  \E t \in Tasks:
    /\ pc[t] = "done"
    /\ task[t].result = "ConfigurationError"
    /\ ~task[t].first
    /\ ~task[t].after

\* The handler has its answer from check_rate_limit.
Answered(t) ==
  pc[t] \in {"rl_ret", "init_check", "init_env", "init_v2", "init_v1", "init_ret",
             "upload", "api", "remove", "done"}

\* C8: in a handler with a category, check_rate_limit is the first thing
\* called and is called once; when it returns False the handler ends with the
\* rate-limit error, having acquired no handle and called no platform API.
C8_RejectedDoesNothing ==
  \A t \in Tasks:
    (task[t].h \in Handlers /\ Category(task[t].h) # "") =>
      /\ (Answered(t) /\ ~task[t].ok) =>
           /\ pc[t] \in {"rl_ret", "done"}
           /\ pc[t] = "done" => task[t].result = "RateLimitExceeded"
           /\ task[t].trace = <<Ev("check_rate_limit", 0, TRUE)>>
      /\ task[t].result = "RateLimitExceeded" => (Answered(t) /\ ~task[t].ok)
      /\ task[t].trace # <<>> =>
           /\ task[t].trace[1].op = "check_rate_limit"
           /\ Len(Events(t, {"check_rate_limit"})) = 1

\* get_user_followers is rejected while no client was ever built.
C8_Witness ==
  \E t \in Tasks:
    /\ pc[t] = "done"
    /\ task[t].h = "get_user_followers"
    /\ task[t].result = "RateLimitExceeded"
    /\ twitter_client = 0

\* C9: delete_all_bookmarks removes the fetched bookmarks in list order; every
\* removal before a failed one succeeded, the failed removal is the last call
\* the handler makes, and the handler ends with the upstream error; it ends
\* with "all bookmarks deleted" only after all n removals succeeded.
C9_StopsAtFirstFailure ==
  \A t \in Tasks:
    (task[t].h = "delete_all_bookmarks" /\ task[t].resp = "data") =>
      LET rem == Events(t, {"remove_bookmark"})
          k == Len(rem)
          tr == task[t].trace
      IN /\ k <= task[t].n
         /\ \A i \in 1..k: rem[i].arg = i
         /\ \A i \in 1..(k - 1): rem[i].ok
         /\ \A i \in 1..Len(tr): ~tr[i].ok => i = Len(tr)
         /\ (k > 0 /\ ~rem[k].ok) =>
              (pc[t] = "done" /\ task[t].result = "UpstreamAPIError")
         /\ task[t].result = "all bookmarks deleted" =>
              (k = task[t].n /\ \A i \in 1..k: rem[i].ok)
         /\ pc[t] = "done" =>
              task[t].result \in {"UpstreamAPIError", "all bookmarks deleted"}

\* Of three bookmarks the first is removed, the second removal fails and the
\* third is never attempted.
C9_Witness ==
  \E t \in Tasks:
    /\ pc[t] = "done"
    /\ task[t].h = "delete_all_bookmarks"
    /\ task[t].n = 3
    /\ Events(t, {"remove_bookmark"}) =
         <<Ev("remove_bookmark", 1, TRUE), Ev("remove_bookmark", 2, FALSE)>>
    /\ task[t].result = "UpstreamAPIError"

\* C10, as stated: a handler whose platform call answers without data ends
\* with an explicit absent value or empty collection and does not fail.
C10_NoDataIsEmpty ==
  \A t \in Tasks:
    (pc[t] = "done" /\ task[t].resp = "nodata") => task[t].result \in {"None", "[]"}

\* C11: a check_rate_limit call for an action type without an entry in
\* RATE_LIMITS returns True, whatever calls were made before it, and the
\* defaultdict it leaves is the one it found: no counter is created for the
\* action type and no counter is changed.
C11_UnlistedAlwaysAdmits ==
  /\ rate_limit_counters[Unlisted] = NoCounter
  /\ \A t \in Tasks:
       (task[t].h = "check_rate_limit" /\ task[t].a = Unlisted) =>
         /\ pc[t] \in {"rl_enter", "rl_ret", "done"}
         /\ pc[t] = "rl_ret" =>
              (task[t].ok /\ rate_limit_counters = task[t].before)
         /\ pc[t] = "done" => task[t].result = "True"

\* A second call for the unlisted action type was pending while another call
\* took the last unit of a configured category and is admitted all the same,
\* leaving that saturated counter as it was.
C11_Witness ==
  \E t \in Tasks:
    /\ pc[t] = "rl_ret"
    /\ task[t].a = Unlisted
    /\ task[t].ok
    /\ task[t].raced \in Categories
    /\ rate_limit_counters[task[t].raced].count = RATE_LIMITS[task[t].raced].limit
    /\ rate_limit_counters = task[t].before

\* C12: a check_rate_limit call that returns False leaves every counter,
\* count and reset_time, of its own and of every other action type, as the
\* call found it.
C12_RejectedLeavesCounters ==
  \A t \in Tasks:
    (pc[t] = "rl_ret" /\ task[t].a \in Categories /\ ~task[t].ok) =>
      /\ rate_limit_counters = task[t].before
      /\ task[t].before[task[t].a].held

\* A call is rejected at the last moment of the window its category's counter
\* is saturated in.
C12_Witness ==
  \E t \in Tasks:
    /\ pc[t] = "rl_ret"
    /\ task[t].a \in Categories
    /\ ~task[t].ok
    /\ task[t].lnow > 0
    /\ task[t].lnow + 1 = rate_limit_counters[task[t].a].reset_time
    /\ rate_limit_counters = task[t].before

\* The bounds the handlers' docstrings give for max_results (133, 148, 350,
\* 363, 376, 419, 433).
DocumentedMin(h) ==
  CASE h = "search_twitter" -> 10
    [] h \in TweetLists -> 5
    [] OTHER -> 1

DocumentedMax(h) == 100

\* C13, as stated: whatever count the caller gives, the max_results a
\* paginated handler passes to the platform lies within the endpoint's
\* documented bounds.
C13_CountClamped ==
  \A t \in Tasks:
    (task[t].h \in Paginated /\ task[t].resp # "" /\ task[t].max_results.some) =>
      /\ task[t].max_results.v >= DocumentedMin(task[t].h)
      /\ task[t].max_results.v <= DocumentedMax(task[t].h)

\* C14: search_twitter passes max_results = 100 for count None, 10 for a
\* count below 10, 100 for a count above 100 and the count itself otherwise:
\* always a number in 10..100.
C14_SearchCountClamped ==
  \A t \in Tasks:
    (task[t].h = "search_twitter" /\ task[t].resp # "") =>
      LET c == task[t].count
          mr == task[t].max_results
      IN /\ mr.some
         /\ mr.v >= 10 /\ mr.v <= 100
         /\ ~c.some => mr.v = 100
         /\ (c.some /\ c.v < 10) => mr.v = 10
         /\ (c.some /\ c.v > 100) => mr.v = 100
         /\ (c.some /\ c.v >= 10 /\ c.v <= 100) => mr.v = c.v

\* search_twitter was called with a count above 100 and has passed 100.
C14_Witness ==
  \E t \in Tasks:
    /\ task[t].h = "search_twitter"
    /\ task[t].resp = "data"
    /\ task[t].count = Some(101)
    /\ task[t].max_results = Some(100)

\* " #g" for every tag g of the list, in list order.
RECURSIVE HashSuffix(_)
HashSuffix(l) ==
  IF l = <<>> THEN <<>> ELSE <<" ", "#", l[1]>> \o HashSuffix(Tail(l))

\* C15: the text post_tweet passes to create_tweet is its text argument
\* followed by " #g" for each tag in input order, and the text argument itself
\* when tags is None or empty; the text is put together only after the call
\* was admitted, and before create_tweet is called.
C15_TextComposed ==
  \A t \in Tasks:
    task[t].h = "post_tweet" =>
      LET want == task[t].text \o
                    HashSuffix(IF task[t].tags.given THEN task[t].tags.list ELSE <<>>)
      IN /\ task[t].tweet_text # <<>> =>
              (task[t].ok /\ task[t].tweet_text = want)
         /\ pc[t] \in {"rl_enter", "rl_stale", "rl_cmp", "rl_inc", "rl_ret"} =>
              task[t].tweet_text = <<>>
         /\ task[t].result \in {"RateLimitExceeded", "ConfigurationError"} =>
              task[t].tweet_text = <<>>
         /\ (pc[t] \in {"upload", "api"} \/ Events(t, {"create_tweet"}) # <<>>) =>
              task[t].tweet_text = want

\* post_tweet("hello", tags=["a", "b"]) has sent "hello #a #b".
C15_Witness ==
  \E t \in Tasks:
    /\ task[t].h = "post_tweet"
    /\ task[t].text = <<"hello">>
    /\ task[t].tags = Tags(<<"a", "b">>)
    /\ Events(t, {"create_tweet"}) # <<>>
    /\ task[t].tweet_text = <<"hello", " ", "#", "a", " ", "#", "b">>

C18_UploadsThenCreate ==
  \A t \in Tasks:
    task[t].h = "post_tweet" =>
      LET up == Events(t, {"media_upload"})
          k == Len(up)
          cr == Events(t, {"create_tweet"})
          tr == task[t].trace
      IN /\ k <= task[t].n
         /\ \A i \in 1..k: up[i].arg = i
         /\ \A i \in 1..(k - 1): up[i].ok
         /\ Len(cr) <= 1
         /\ cr # <<>> =>
              /\ tr[Len(tr)].op = "create_tweet"
              /\ k = task[t].n
              /\ \A i \in 1..k: up[i].ok
              /\ task[t].media_ids = [i \in 1..k |-> i]
         /\ (k > 0 /\ ~up[k].ok) =>
              /\ pc[t] = "done"
              /\ task[t].result = "UpstreamAPIError"
              /\ cr = <<>>
              /\ tr[Len(tr)] = up[k]

\* Two paths were uploaded and create_tweet has passed their two identifiers.
C18_Witness ==
  \E t \in Tasks:
    /\ task[t].h = "post_tweet"
    /\ task[t].n = 2
    /\ Events(t, {"create_tweet"}) # <<>>
    /\ task[t].media_ids = <<1, 2>>

\* C17: vote_on_poll never enters initialize_twitter_clients and calls no
\* platform method; it goes through the tweet_actions admission, which takes
\* one unit when it admits and rejects when the window's units are used up;
\* admitted, the handler returns its canned answer, whatever the credentials.
C17_VoteIsCanned ==
  \A t \in Tasks:
    task[t].h = "vote_on_poll" =>
      LET b == task[t].before["tweet_actions"]
          c == rate_limit_counters["tweet_actions"]
          full == b.held /\ ~task[t].elapsed
                    /\ b.count = RATE_LIMITS["tweet_actions"].limit
      IN /\ pc[t] \in {"rl_enter", "rl_stale", "rl_cmp", "rl_inc", "rl_ret", "done"}
         /\ task[t].a = "tweet_actions"
         /\ task[t].pair = NoPair
         /\ \A i \in 1..Len(task[t].trace):
              i = 1 /\ task[t].trace[i].op = "check_rate_limit"
         /\ pc[t] = "rl_ret" =>
              /\ task[t].ok <=> ~full
              /\ task[t].ok =>
                   c.count = (IF task[t].elapsed THEN 0 ELSE b.count) + 1
         /\ pc[t] = "done" =>
              task[t].result = IF task[t].ok THEN "voted" ELSE "RateLimitExceeded"

\* vote_on_poll has answered "voted" while a credential is missing and no
\* client was ever built.
C17_Witness ==
  \E t \in Tasks:
    /\ pc[t] = "done"
    /\ task[t].h = "vote_on_poll"
    /\ task[t].result = "voted"
    /\ env # Required
    /\ twitter_client = 0
    /\ rate_limit_counters["tweet_actions"].count >= 1

\* The handlers that pass no action type to check_rate_limit.
Uncategorized ==
  {"get_user_profile", "get_user_by_id", "get_user_by_screen_name",
   "get_tweet_details", "get_timeline", "get_latest_timeline", "search_twitter",
   "get_trends", "get_highlights_tweets", "get_user_mentions"}

\* A counter that admits nothing more now.
Saturated(a) ==
  /\ rate_limit_counters[a].held
  /\ rate_limit_counters[a].count = RATE_LIMITS[a].limit
  /\ now < rate_limit_counters[a].reset_time

\* C19: the admission check of a handler leaves the counter of every action
\* type but its own as it found it; a handler without a category never enters
\* check_rate_limit, is never rejected for rate limiting, and no step of it
\* changes any counter.
C19_CountersIndependent ==
  /\ [](\A t \in Tasks:
         /\ (task[t].h \in Handlers /\ pc[t] = "rl_ret") =>
              \A b \in ActionTypes \ {task[t].a}:
                rate_limit_counters[b] = task[t].before[b]
         /\ task[t].h \in Uncategorized =>
              /\ pc[t] \notin {"rl_enter", "rl_stale", "rl_cmp", "rl_inc", "rl_ret"}
              /\ Events(t, {"check_rate_limit"}) = <<>>
              /\ task[t].result # "RateLimitExceeded")
  /\ [][\A t \in Tasks:
          (pc'[t] # pc[t] /\ (task[t].h \in Uncategorized
                                \/ task'[t].h \in Uncategorized))
            => rate_limit_counters' = rate_limit_counters]_vars

\* A lookup has returned its data while the counter of every category a
\* handler uses is saturated.
C19_Witness ==
  \E t \in Tasks:
    /\ pc[t] = "done"
    /\ task[t].h = "get_user_profile"
    /\ task[t].result = "data"
    /\ Saturated("tweet_actions")
    /\ Saturated("follow_actions")
    /\ Saturated("like_actions")

\* A handler stands past its admission check.
PastAdmission(t) ==
  /\ task[t].h \in Handlers
  /\ pc[t] \in {"rl_ret", "init_check", "init_env", "init_v2", "init_v1",
                 "init_ret", "upload", "api", "remove", "done"}

\* C20: a category's count is the number of invocations admitted since its
\* last reset; a handler asks for admission once, and nothing it does after
\* the answer (acquiring the clients, any number of platform calls, failing)
\* changes a counter.
C20_OneUnitPerInvocation ==
  /\ [](/\ \A a \in Categories: rate_limit_counters[a].count = admitted[a]
        /\ \A t \in Tasks:
             task[t].h \in Handlers => Len(Events(t, {"check_rate_limit"})) <= 1)
  /\ [][\A t \in Tasks:
          (PastAdmission(t) /\ pc'[t] # pc[t])
            => rate_limit_counters' = rate_limit_counters]_vars

\* delete_all_bookmarks made four platform calls, failed at the last of
\* them, and its one unit stays consumed.
C20_Witness ==
  \E t \in Tasks:
    /\ pc[t] = "done"
    /\ task[t].h = "delete_all_bookmarks"
    /\ task[t].result = "UpstreamAPIError"
    /\ Len(Events(t, {"remove_bookmark"})) = 3
    /\ rate_limit_counters["tweet_actions"].count = 1
    /\ admitted["tweet_actions"] = 1

\* C21, as stated: between acquisition calls the cache holds both clients or
\* neither, also after a call that failed part-way through construction, and
\* the Client object is constructed at most once in the life of the process.
C21_BothOrNeither ==
  /\ Quiet => ((twitter_client = 0) <=> (twitter_v1_api = 0))
  /\ built.client <= 1

\* C22: the first check_rate_limit call for a configured category, made at
\* time t, is admitted and leaves the counter at count = 1 and reset_time =
\* t + window; from then on reset_time never decreases, and count decreases
\* only in the reset of a call whose clock reading is at or past reset_time.
C22_WindowFromFirstAdmission ==
  /\ [](\A t \in Tasks:
         (pc[t] = "rl_ret" /\ task[t].a \in Categories
            /\ ~task[t].before[task[t].a].held) =>
           /\ task[t].ok
           /\ rate_limit_counters[task[t].a] =
                [held |-> TRUE, count |-> 1,
                 reset_time |-> task[t].lnow + RATE_LIMITS[task[t].a].window])
  /\ [][\A a \in Categories:
          rate_limit_counters[a].held =>
            /\ rate_limit_counters'[a].held
            /\ rate_limit_counters'[a].reset_time >= rate_limit_counters[a].reset_time
            /\ rate_limit_counters'[a].count < rate_limit_counters[a].count =>
                 /\ rate_limit_counters'[a].count = 0
                 /\ \E t \in Tasks:
                      /\ pc[t] = "rl_stale"
                      /\ task[t].a = a
                      /\ now >= task[t].lnow
                      /\ task[t].lnow >= rate_limit_counters[a].reset_time]_vars

\* The first call for a category comes at the last tick of the run and leaves
\* a window that starts then.
C22_Witness ==
  \E t \in Tasks:
    /\ pc[t] = "rl_ret"
    /\ task[t].a \in Categories
    /\ ~task[t].before[task[t].a].held
    /\ task[t].lnow = MaxTime
    /\ task[t].ok
    /\ rate_limit_counters[task[t].a].count = 1
    /\ rate_limit_counters[task[t].a].reset_time
         = MaxTime + RATE_LIMITS[task[t].a].window

====
